---- MODULE Spec2Model ----
(***************************************************************************)
(* A state-machine model of the SCORM run-time API of scorm-again:         *)
(* BaseAPI (lifecycle, path resolution, error register, listeners, commit  *)
(* scheduling) and its SCORM 1.2 facade Scorm12API.                        *)
(*                                                                         *)
(* JavaScript strings that the code takes apart (element paths, listener   *)
(* names) are sequences of atoms: a word, "." or " ".  split, replace and  *)
(* the regular-expression matches are computed on these sequences.         *)
(* JavaScript values stored in the tree are tagged records (nodes).        *)
(***************************************************************************)
EXTENDS Integers, Sequences, FiniteSets, TLC

VARIABLES
    currentState,   \* this.currentState
    lastErrorCode,  \* this.lastErrorCode (the error register), "0" when clear
    cmi,            \* this.cmi, the data model tree
    listenerArray,  \* this.listenerArray, the registrations in order
    timeout,        \* this.#timeout, the pending commit slot
    timers,         \* every ScheduledCommit ever constructed
    settings,       \* this.#settings
    tokens,         \* history: for each registration, the call of on it came from
    last            \* history: the most recent public call, its inputs and outcome

vars == <<currentState, lastErrorCode, cmi, listenerArray, timeout, timers, settings,
          tokens, last>>

(***************************************************************************)
(* Bounds of the model.                                                    *)
(***************************************************************************)
\* the longest childArray a setValue may produce
MaxChildren == 2
\* the most registrations listenerArray may hold
MaxListeners == 5
\* the most registrations made one token at a time
MaxSingle == 2

(***************************************************************************)
(* Constants of the program.                                               *)
(***************************************************************************)
STATE_NOT_INITIALIZED == "STATE_NOT_INITIALIZED"
STATE_INITIALIZED == "STATE_INITIALIZED"
STATE_TERMINATED == "STATE_TERMINATED"
SCORM_TRUE == "true"
SCORM_FALSE == "false"

\* the error-code table handed to the constructor; the codes are kept symbolic
error_codes ==
    [ INITIALIZED |-> "INITIALIZED",
      TERMINATED |-> "TERMINATED",
      TERMINATION_BEFORE_INIT |-> "TERMINATION_BEFORE_INIT",
      MULTIPLE_TERMINATION |-> "MULTIPLE_TERMINATION",
      RETRIEVE_BEFORE_INIT |-> "RETRIEVE_BEFORE_INIT",
      RETRIEVE_AFTER_TERM |-> "RETRIEVE_AFTER_TERM",
      STORE_BEFORE_INIT |-> "STORE_BEFORE_INIT",
      STORE_AFTER_TERM |-> "STORE_AFTER_TERM",
      COMMIT_BEFORE_INIT |-> "COMMIT_BEFORE_INIT",
      COMMIT_AFTER_TERM |-> "COMMIT_AFTER_TERM",
      GENERAL |-> "GENERAL",
      UNDEFINED_DATA_MODEL |-> "UNDEFINED_DATA_MODEL",
      VALUE_NOT_INITIALIZED |-> "VALUE_NOT_INITIALIZED",
      READ_ONLY_ELEMENT |-> "READ_ONLY_ELEMENT",
      TYPE_MISMATCH |-> "TYPE_MISMATCH" ]

(***************************************************************************)
(* Strings as sequences of atoms.                                          *)
(***************************************************************************)
DOT == "."
SPACE == " "
DigitAtoms == {"0", "1", "2", "3"}

\* an optional string argument: absent (undefined / null) or present
None == [some |-> FALSE, s |-> <<>>]
Some(s) == [some |-> TRUE, s |-> s]

\* String.prototype.split(sep): the pieces between the separators
RECURSIVE SplitFrom(_, _, _)
SplitFrom(s, sep, cur) ==
    IF s = <<>> THEN <<cur>>
    ELSE IF Head(s) = sep THEN <<cur>> \o SplitFrom(Tail(s), sep, <<>>)
    ELSE SplitFrom(Tail(s), sep, Append(cur, Head(s)))

Split(s, sep) == SplitFrom(s, sep, <<>>)

\* whether pat occurs in s at position 1
StartsWith(s, pat) ==
    /\ Len(pat) <= Len(s)
    /\ \A k \in 1..Len(pat) : s[k] = pat[k]

\* String.prototype.replace(pat, ''): the first occurrence of pat removed
RECURSIVE Replace(_, _)
Replace(s, pat) ==
    IF StartsWith(s, pat) THEN SubSeq(s, Len(pat) + 1, Len(s))
    ELSE IF s = <<>> THEN <<>>
    ELSE <<Head(s)>> \o Replace(Tail(s), pat)

\* one atom of a regular expression against one atom of the string
AtomMatches(a, p) == IF p = "\\d" THEN a \in DigitAtoms ELSE a = p

\* str.match(tester): the (unanchored) pattern occurs somewhere in str
RECURSIVE RegexFound(_, _)
RegexFound(s, pat) ==
    \/ /\ Len(pat) <= Len(s)
       /\ \A k \in 1..Len(pat) : AtomMatches(s[k], pat[k])
    \/ /\ s # <<>>
       /\ RegexFound(Tail(s), pat)

\* stringMatches(str, tester): str && tester && str.match(tester)
stringMatches(str, tester) == str # <<>> /\ tester # <<>> /\ RegexFound(str, tester)

\* the property name a path segment stands for
Name(seg) == IF Len(seg) = 1 THEN seg[1] ELSE ""

\* parseInt(segment, 10); NaN for a missing or non-numeric segment
NaN == -1
parseInt(structure, k) ==
    IF k > Len(structure) THEN NaN
    ELSE LET a == Name(structure[k])
         IN CASE a = "0" -> 0
              [] a = "1" -> 1
              [] a = "2" -> 2
              [] a = "3" -> 3
              [] OTHER -> NaN

\* the key of child number n (counted from 0) of a childArray
IdxKey(n) == CASE n = 0 -> "0" [] n = 1 -> "1" [] n = 2 -> "2" [] OTHER -> "3"
KeyIdx(k) == CASE k = "0" -> 0 [] k = "1" -> 1 [] k = "2" -> 2 [] OTHER -> 3

(***************************************************************************)
(* JavaScript values: undefined, a primitive, an object of the data model  *)
(* (a composite with named fields) or a CMIArray (a collection).           *)
(***************************************************************************)
Undef == [k |-> "undefined"]
Prim(v) == [k |-> "prim", v |-> v]
Obj(cls, init, f) == [k |-> "obj", cls |-> cls, initialized |-> init, f |-> f]
Arr(init, cs) == [k |-> "arr", initialized |-> init, childArray |-> cs]

\* the outcome of a call that an exception left instead of a return
Thrown(e) == [k |-> "thrown", e |-> e]

\* !value
Falsy(node) == node.k = "undefined" \/ (node.k = "prim" /\ node.v = "")

(***************************************************************************)
(* The data model (cmi/scorm12_cmi, cmi/common): a fixed shape of          *)
(* composites and leaves with one collection, cmi.interactions.            *)
(***************************************************************************)
\* new CMI()
NewCMI ==
    Obj("CMI", FALSE,
        [ core |-> Obj("CMICore", FALSE,
                       [ score |-> Obj("CMIScore", FALSE, [raw |-> Prim("")]) ]),
          interactions |-> Arr(FALSE, <<>>) ])

\* new CMIInteractionsObject() and the other children of collections
NewChild(cls) == Obj(cls, FALSE, [id |-> Prim("")])

\* the values the validator of a decimal leaf accepts
DecimalValues == {"", "80"}

\* the validator a leaf's setter runs: "ok", or the code of its ValidationError
Validate(cls, name, value) ==
    IF cls = "CMIScore" /\ name = "raw" /\ value \notin DecimalValues
    THEN error_codes.TYPE_MISMATCH
    ELSE "ok"

\* BaseCMI.initialize() over the tree built by the constructor
RECURSIVE CmiInitialize(_)
CmiInitialize(node) ==
    CASE node.k = "obj" ->
           [node EXCEPT !.initialized = TRUE,
                        !.f = [n \in DOMAIN node.f |-> CmiInitialize(node.f[n])]]
      [] node.k = "arr" -> [node EXCEPT !.initialized = TRUE]
      [] OTHER -> node

(***************************************************************************)
(* Property access on a node.                                              *)
(***************************************************************************)
\* refObject[attribute]
GetProp(node, name) ==
    IF node.k = "obj" /\ name \in DOMAIN node.f THEN node.f[name] ELSE Undef

\* _checkObjectHasProperty(refObject, attribute): TRUE, FALSE, or "TypeError"
\* when the in operator is applied to a primitive
checkObjectHasProperty(node, name) ==
    CASE node.k = "obj" -> IF name \in DOMAIN node.f THEN "true" ELSE "false"
      [] node.k = "arr" -> "false"
      [] OTHER -> "TypeError"

\* the node a location (the keys from the root) leads to
RECURSIVE NodeAt(_, _)
NodeAt(node, loc) ==
    IF loc = <<>> THEN node
    ELSE IF node.k = "arr"
         THEN NodeAt(node.childArray[KeyIdx(Head(loc)) + 1], Tail(loc))
         ELSE NodeAt(node.f[Head(loc)], Tail(loc))

\* the tree with the node at a location replaced
RECURSIVE SetAt(_, _, _)
SetAt(node, loc, new) ==
    IF loc = <<>> THEN new
    ELSE IF node.k = "arr"
         THEN [node EXCEPT !.childArray[KeyIdx(Head(loc)) + 1] =
                               SetAt(@, Tail(loc), new)]
         ELSE [node EXCEPT !.f[Head(loc)] = SetAt(@, Tail(loc), new)]

\* the API object the walk starts from: let refObject = this
This(c, state, err) ==
    Obj("API", FALSE,
        [cmi |-> c, currentState |-> Prim(state), lastErrorCode |-> Prim(err)])

\* throwSCORMError(errorNumber): this.lastErrorCode = String(errorNumber)
throwSCORMError(root, errorNumber) ==
    [root EXCEPT !.f.lastErrorCode = Prim(errorNumber)]

\* a faulty clearSCORMError that resets the register whatever the outcome
clearSCORMErrorAlways(err, success) == "0"

\* clearSCORMError(success) applied to a register value
clearSCORMError(err, success) ==
    IF success # Undef /\ success # Prim(SCORM_FALSE) THEN "0" ELSE err

(***************************************************************************)
(* Scorm12API.getChildElement                                              *)
(***************************************************************************)
getChildElement(CMIElement, value, foundFirstIndex) ==
    IF stringMatches(CMIElement, <<"cmi", DOT, "objectives", DOT, "\\d">>)
    THEN "CMIObjectivesObject"
    ELSE IF foundFirstIndex /\ stringMatches(CMIElement,
              <<"cmi", DOT, "interactions", DOT, "\\d", DOT,
                "correct_responses", DOT, "\\d">>)
    THEN "CMIInteractionsCorrectResponsesObject"
    ELSE IF foundFirstIndex /\ stringMatches(CMIElement,
              <<"cmi", DOT, "interactions", DOT, "\\d", DOT,
                "objectives", DOT, "\\d">>)
    THEN "CMIInteractionsObjectivesObject"
    ELSE IF stringMatches(CMIElement, <<"cmi", DOT, "interactions", DOT, "\\d">>)
    THEN "CMIInteractionsObject"
    ELSE "undefined"

(***************************************************************************)
(* BaseAPI._commonSetCMIValue (scorm2004 = false).  The walk keeps          *)
(*   root    the API object, with the tree and the register in it          *)
(*   ref     the location of refObject                                     *)
(*   i       the loop index, counted from 1                                *)
(*   brk     whether the loop was left by break                            *)
(*   thrown  "none", or the exception that left the function               *)
(***************************************************************************)
\* the final segment: check the property, then assign through the setter
\* a faulty last step that stores the value before the validator rejects it
SetFinalThenValidate(st, attribute, value) ==
    LET refObject == NodeAt(st.root, st.ref)
        has == checkObjectHasProperty(refObject, attribute)
        stored == [st EXCEPT
                     !.root = SetAt(st.root, Append(st.ref, attribute), Prim(value))]
    IN CASE has = "TypeError" -> [st EXCEPT !.thrown = "TypeError"]
         [] has = "false" ->
              [st EXCEPT !.root = throwSCORMError(st.root, error_codes.GENERAL)]
         [] OTHER ->
              LET verdict == Validate(refObject.cls, attribute, value)
              IN IF verdict = "ok"
                 THEN [stored EXCEPT !.returnValue = SCORM_TRUE]
                 ELSE [stored EXCEPT !.thrown = "ValidationError", !.code = verdict]

SetFinal(st, attribute, value) ==
    LET refObject == NodeAt(st.root, st.ref)
        has == checkObjectHasProperty(refObject, attribute)
    IN CASE has = "TypeError" -> [st EXCEPT !.thrown = "TypeError"]
         [] has = "false" ->
              [st EXCEPT !.root = throwSCORMError(st.root, error_codes.GENERAL)]
         [] OTHER ->
              LET verdict == Validate(refObject.cls, attribute, value)
              IN IF verdict = "ok"
                 THEN [st EXCEPT
                         !.root = SetAt(st.root, Append(st.ref, attribute), Prim(value)),
                         !.returnValue = SCORM_TRUE]
                 ELSE [st EXCEPT !.thrown = "ValidationError", !.code = verdict]

\* a segment that names a CMIArray followed by an index
SetIndex(st, arrLoc, arr, index, CMIElement, value) ==
    IF index < Len(arr.childArray)
    THEN [st EXCEPT !.ref = Append(arrLoc, IdxKey(index)), !.i = st.i + 1]
    ELSE LET newChild == getChildElement(CMIElement, value, st.foundFirstIndex)
         IN IF newChild = "undefined"
            THEN [st EXCEPT
                    !.root = throwSCORMError(st.root, error_codes.GENERAL),
                    !.ref = arrLoc,
                    !.foundFirstIndex = TRUE,
                    !.i = st.i + 1]
            ELSE LET child == [NewChild(newChild) EXCEPT
                                  !.initialized = arr.initialized]
                 IN [st EXCEPT
                       !.root = SetAt(st.root, arrLoc,
                                      [arr EXCEPT !.childArray = Append(@, child)]),
                       !.ref = Append(arrLoc, IdxKey(Len(arr.childArray))),
                       !.foundFirstIndex = TRUE,
                       !.i = st.i + 1]

\* one pass of the for loop
SetStep(st, structure, CMIElement, value) ==
    LET attribute == Name(structure[st.i])
    IN IF st.i = Len(structure)
       THEN SetFinal(st, attribute, value)
       ELSE LET next == GetProp(NodeAt(st.root, st.ref), attribute)
                loc == Append(st.ref, attribute)
                index == parseInt(structure, st.i + 1)
            IN IF Falsy(next)
               THEN [st EXCEPT
                       !.root = throwSCORMError(st.root, error_codes.GENERAL),
                       !.brk = TRUE]
               ELSE IF next.k = "arr" /\ index # NaN
               THEN SetIndex(st, loc, next, index, CMIElement, value)
               ELSE [st EXCEPT !.ref = loc]

RECURSIVE SetLoop(_, _, _, _)
SetLoop(st, structure, CMIElement, value) ==
    IF st.i > Len(structure) \/ st.brk \/ st.thrown # "none"
    THEN st
    ELSE LET s2 == SetStep(st, structure, CMIElement, value)
         IN SetLoop([s2 EXCEPT !.i = s2.i + 1], structure, CMIElement, value)

\* _commonSetCMIValue(methodName, false, CMIElement, value) on the API object
commonSetCMIValue(root, CMIElement, value) ==
    LET st0 == [root |-> root, ref |-> <<>>, i |-> 1, brk |-> FALSE,
                returnValue |-> SCORM_FALSE, foundFirstIndex |-> FALSE,
                thrown |-> "none", code |-> "0"]
    IN IF ~CMIElement.some \/ CMIElement.s = <<>>
       THEN st0
       ELSE SetLoop(st0, Split(CMIElement.s, DOT), CMIElement.s, value)

(***************************************************************************)
(* BaseAPI._commonGetCMIValue (scorm2004 = false).  The walk keeps          *)
(*   refObject  the node reached                                           *)
(*   err        the register                                               *)
(*   done       whether the function has returned; ret is what it returned *)
(***************************************************************************)
GetStep(st, structure) ==
    LET attribute == Name(structure[st.i])
        has == checkObjectHasProperty(st.refObject, attribute)
        next == GetProp(st.refObject, attribute)
        index == parseInt(structure, st.i + 1)
    IN IF st.i = Len(structure) /\ has = "TypeError"
       THEN [st EXCEPT !.thrown = "TypeError"]
       ELSE IF st.i = Len(structure) /\ has = "false"
       THEN [st EXCEPT !.err = error_codes.GENERAL, !.done = TRUE, !.ret = Undef]
       ELSE IF Falsy(next)
       THEN [st EXCEPT !.refObject = next, !.err = error_codes.GENERAL, !.brk = TRUE]
       ELSE IF next.k = "arr" /\ index # NaN
       THEN IF index < Len(next.childArray)
            THEN [st EXCEPT !.refObject = next.childArray[index + 1], !.i = st.i + 1]
            ELSE [st EXCEPT !.refObject = next,
                            !.err = error_codes.VALUE_NOT_INITIALIZED,
                            !.brk = TRUE]
       ELSE [st EXCEPT !.refObject = next]

RECURSIVE GetLoop(_, _)
GetLoop(st, structure) ==
    IF st.i > Len(structure) \/ st.brk \/ st.done \/ st.thrown # "none"
    THEN st
    ELSE LET s2 == GetStep(st, structure)
         IN GetLoop([s2 EXCEPT !.i = s2.i + 1], structure)

\* _commonGetCMIValue(methodName, false, CMIElement): the value returned, the
\* register afterwards, and the exception thrown if any
commonGetCMIValue(root, CMIElement) ==
    LET st0 == [refObject |-> root, i |-> 1, brk |-> FALSE, done |-> FALSE,
                ret |-> Undef, err |-> root.f.lastErrorCode.v, thrown |-> "none"]
    IN IF ~CMIElement.some \/ CMIElement.s = <<>>
       THEN [st0 EXCEPT !.ret = Prim("")]
       ELSE LET st == GetLoop(st0, Split(CMIElement.s, DOT))
            IN IF st.done \/ st.thrown # "none" THEN st
               ELSE IF st.refObject = Undef THEN [st EXCEPT !.ret = Undef]
               ELSE [st EXCEPT !.ret = st.refObject]

(***************************************************************************)
(* Listeners.                                                              *)
(***************************************************************************)
\* the registrations on(listenerName, callback) pushes for the tokens from k on
RECURSIVE onFrom(_, _, _, _)
onFrom(listenerFunctions, k, listenerName, callback) ==
    IF k > Len(listenerFunctions) THEN <<>>
    ELSE LET listenerSplit == Split(listenerFunctions[k], DOT)
             functionName == listenerSplit[1]
             CMIElement ==
                 IF Len(listenerSplit) > 1
                 THEN Some(Replace(listenerName, Append(functionName, DOT)))
                 ELSE None
         IN <<[functionName |-> functionName, CMIElement |-> CMIElement,
               callback |-> callback]>>
            \o onFrom(listenerFunctions, k + 1, listenerName, callback)

\* on(listenerName, callback), for a callback that is given
on(listenerName, callback) == onFrom(Split(listenerName, SPACE), 1, listenerName, callback)

\* processListeners(functionName, CMIElement, value): the callbacks invoked, in
\* order, each with the registration it belongs to and the arguments passed
RECURSIVE processFrom(_, _, _, _, _)
processFrom(listeners, k, functionName, CMIElement, value) ==
    IF k > Len(listeners) THEN <<>>
    ELSE LET listener == listeners[k]
             functionsMatch == listener.functionName = functionName
             listenerHasCMIElement ==
                 listener.CMIElement.some /\ listener.CMIElement.s # <<>>
             CMIElementsMatch ==
                 listener.CMIElement.some /\ CMIElement.some
                 /\ listener.CMIElement.s = CMIElement.s
             rest == processFrom(listeners, k + 1, functionName, CMIElement, value)
         IN IF functionsMatch /\ (~listenerHasCMIElement \/ CMIElementsMatch)
            THEN <<[registration |-> k, callback |-> listener.callback,
                    CMIElement |-> CMIElement, value |-> value]>>
                 \* a callback that throws ends the loop: nothing catches it
                 \o (IF listener.callback = "faulty" THEN <<>> ELSE rest)
            ELSE rest

\* a faulty processListeners that goes on after a callback has thrown and
\* swallows what it threw
processListenersSwallowing(listeners, functionName, CMIElement, value) ==
    LET fired == processFrom([k \in 1..Len(listeners) |->
                                 [listeners[k] EXCEPT !.callback = "cb"]],
                             1, functionName, CMIElement, value)
    IN [i \in 1..Len(fired) |-> [fired[i] EXCEPT !.callback = "swallowed"]]

\* a faulty processListeners that ignores the element a listener names
processListenersAnyElement(listeners, functionName, CMIElement, value) ==
    processFrom([k \in 1..Len(listeners) |-> [listeners[k] EXCEPT !.CMIElement = None]],
                1, functionName, CMIElement, value)

\* a faulty processListeners that takes a filter that begins the element for
\* the element
processListenersByPrefix(listeners, functionName, CMIElement, value) ==
    processFrom([k \in 1..Len(listeners) |->
                    IF /\ listeners[k].CMIElement.some
                       /\ CMIElement.some
                       /\ StartsWith(CMIElement.s, listeners[k].CMIElement.s)
                    THEN [listeners[k] EXCEPT !.CMIElement = CMIElement]
                    ELSE listeners[k]],
                1, functionName, CMIElement, value)

processListeners(listeners, functionName, CMIElement, value) ==
    processFrom(listeners, 1, functionName, CMIElement, value)

\* whether the last callback invoked threw; what it threw leaves the public
\* operation that called processListeners
Faulted(fired) == fired # <<>> /\ fired[Len(fired)].callback = "faulty"
CallbackError == Thrown("CallbackError")

(***************************************************************************)
(* The lifecycle guard.                                                    *)
(***************************************************************************)
isInitialized(state) == state = STATE_INITIALIZED
isNotInitialized(state) == state = STATE_NOT_INITIALIZED
isTerminated(state) == state = STATE_TERMINATED

\* a faulty checkState that lets calls through before initialize
checkStateAfterTermOnly(state, err, checkTerminated, beforeInitError, afterTermError) ==
    IF checkTerminated /\ isTerminated(state)
    THEN [ok |-> FALSE, err |-> afterTermError]
    ELSE [ok |-> TRUE, err |-> err]

\* a faulty checkState that lets calls through after terminate
checkStateBeforeInitOnly(state, err, checkTerminated, beforeInitError, afterTermError) ==
    IF isNotInitialized(state)
    THEN [ok |-> FALSE, err |-> beforeInitError]
    ELSE [ok |-> TRUE, err |-> err]

\* checkState(checkTerminated, beforeInitError, afterTermError): whether the
\* guard passes, and the register afterwards
checkState(state, err, checkTerminated, beforeInitError, afterTermError) ==
    IF isNotInitialized(state)
    THEN [ok |-> FALSE, err |-> beforeInitError]
    ELSE IF checkTerminated /\ isTerminated(state)
    THEN [ok |-> FALSE, err |-> afterTermError]
    ELSE [ok |-> TRUE, err |-> err]

(***************************************************************************)
(* The commit scheduler.                                                   *)
(***************************************************************************)
NullTimeout == [k |-> "null"]
TimeoutOf(id) == [k |-> "ScheduledCommit", id |-> id]

\* new ScheduledCommit(API, when): #cancelled unset, the timer armed; commits
\* counts the calls of API.commit the timer has made
NewScheduledCommit(when) ==
    [cancelled |-> FALSE, handle |-> "armed", when |-> when, commits |-> 0]

\* a faulty cancel that sets the flag and leaves the timer armed
cancelFlagOnly(t) == [t EXCEPT !.cancelled = TRUE]

\* ScheduledCommit.cancel()
cancel(t) ==
    [t EXCEPT !.cancelled = TRUE,
              !.handle = IF @ = "armed" THEN "cleared" ELSE @]

\* clearScheduledCommit(): the slot and the timers afterwards
clearScheduledCommit(slot, ts) ==
    IF slot.k = "ScheduledCommit"
    THEN [timeout |-> NullTimeout, timers |-> [ts EXCEPT ![slot.id] = cancel(@)]]
    ELSE [timeout |-> slot, timers |-> ts]

(***************************************************************************)
(* The record of the most recent public call.                              *)
(***************************************************************************)
\* the tree as the claims see it: every leaf value and every collection, without
\* the initialized flags
RECURSIVE Leaves(_)
Leaves(node) ==
    CASE node.k = "obj" -> [n \in DOMAIN node.f |-> Leaves(node.f[n])]
      [] node.k = "arr" ->
           [n \in 1..Len(node.childArray) |-> Leaves(node.childArray[n])]
      [] OTHER -> node

\* the state the call started in: the lifecycle state, the register, the
\* length of cmi.interactions, the pending slot and the timers
\* cmi.interactions.childArray.length; no children when the cmi field holds
\* something other than the tree
CountOf(c) ==
    IF c.k = "obj" /\ c.f.interactions.k = "arr"
    THEN Len(c.f.interactions.childArray)
    ELSE 0

Snapshot ==
    [ currentState |-> currentState, lastErrorCode |-> lastErrorCode,
      count |-> CountOf(cmi),
      timeout |-> timeout, timers |-> timers ]

\* the record of a call; treeChanged tells whether the call left a tree other
\* than the one it found, afterSet the value of a successful setValue on the same
\* path made while INITIALIZED just before a getValue, stored the number of times
\* the call ran storeData, json and preTree the argument of loadFromJSON and the
\* tree it found
Call(op, checkTerminated, CMIElement, value, returnValue, fired, afterSet) ==
    [ op |-> op, checkTerminated |-> checkTerminated,
      CMIElement |-> CMIElement, value |-> value, returnValue |-> returnValue,
      fired |-> fired, pre |-> Snapshot,
      treeChanged |-> Leaves(cmi') # Leaves(cmi),
      afterSet |-> afterSet, stored |-> 0, json |-> Undef, preTree |-> Undef ]

NoCall ==
    [ op |-> "none", checkTerminated |-> FALSE,
      CMIElement |-> None, value |-> None, returnValue |-> Undef,
      fired |-> <<>>, pre |-> [currentState |-> STATE_NOT_INITIALIZED,
                               lastErrorCode |-> "0", count |-> 0,
                               timeout |-> NullTimeout, timers |-> <<>>],
      treeChanged |-> FALSE, afterSet |-> None, stored |-> 0,
      json |-> Undef, preTree |-> Undef ]

(***************************************************************************)
(* Inputs of the model.                                                    *)
(***************************************************************************)
P_raw == <<"cmi", DOT, "core", DOT, "score", DOT, "raw">>
P_id0 == <<"cmi", DOT, "interactions", DOT, "0", DOT, "id">>
P_id1 == <<"cmi", DOT, "interactions", DOT, "1", DOT, "id">>
P_id2 == <<"cmi", DOT, "interactions", DOT, "2", DOT, "id">>
P_child0 == <<"cmi", DOT, "interactions", DOT, "0">>
P_bogus == <<"cmi", DOT, "core", DOT, "bogus">>
P_state == <<"currentState">>
P_rawX == P_raw \o <<DOT, "x">>
P_cmi == <<"cmi">>

\* the element paths passed to getValue, and the (element path, value) pairs
\* passed to setValue, in the lifecycle specification
GetPaths == {P_raw, P_bogus, <<>>}
SetInputs ==
    {<<P_raw, "80">>, <<P_raw, "a">>, <<P_bogus, "a">>, <<<<>>, "a">>,
     <<P_state, STATE_NOT_INITIALIZED>>}

\* the same in the specification of the tree
TreePaths == {P_raw, P_id0, P_id1, P_id2, P_child0}
TreeInputs ==
    {<<P_raw, "80">>, <<P_raw, "a">>, <<P_raw, "">>,
     <<P_id0, "a">>, <<P_id0, "b">>, <<P_id1, "a">>, <<P_id2, "a">>,
     <<P_child0, "a">>, <<P_bogus, "a">>}

\* and in the specification of the listeners
ListenerInputs == {<<P_raw, "80">>, <<P_raw, "a">>, <<P_id0, "a">>}

\* the names the SCORM 1.2 facade passes as callbackName
N_Initialize == <<"LMSInitialize">>
N_Finish == <<"LMSFinish">>
N_GetValue == <<"LMSGetValue">>
N_SetValue == <<"LMSSetValue">>
N_Commit == <<"LMSCommit">>

\* the listener names passed to on
L_SetRaw == N_SetValue \o <<DOT>> \o P_raw
L_GetRaw == N_GetValue \o <<DOT>> \o P_raw
L_All == N_Initialize \o <<SPACE>> \o N_Finish \o <<SPACE>> \o N_GetValue
         \o <<SPACE>> \o N_SetValue \o <<SPACE>> \o N_Commit
SingleNames == {L_SetRaw, L_GetRaw, N_SetValue}
Callbacks == {"cb"}

\* what the LMS answers to the commit request (processHttpRequest)
Responses ==
    { [result |-> SCORM_TRUE, errorCode |-> "0"],
      [result |-> SCORM_FALSE, errorCode |-> error_codes.GENERAL] }

\* the longest childArray in a tree
RECURSIVE MaxLen(_)
MaxLen(node) ==
    CASE node.k = "arr" -> Len(node.childArray)
      [] node.k = "obj" ->
           LET S == {MaxLen(node.f[n]) : n \in DOMAIN node.f}
           IN CHOOSE m \in S \cup {0} : \A x \in S \cup {0} : x <= m
      [] OTHER -> 0

(***************************************************************************)
(* The state after construction: new Scorm12API(settings).                 *)
(***************************************************************************)
Init ==
    /\ currentState = STATE_NOT_INITIALIZED
    /\ lastErrorCode = "0"
    /\ cmi = NewCMI
    /\ listenerArray = <<>>
    /\ timeout = NullTimeout
    /\ timers = <<>>
    /\ settings \in [autocommit : {TRUE}, autocommitSeconds : {60},
                     lmsCommitUrl : BOOLEAN]
    /\ tokens = <<>>
    /\ last = NoCall

(***************************************************************************)
(* Scorm12API.lmsInitialize: this.cmi.initialize(), then BaseAPI.initialize *)
(***************************************************************************)
Initialize ==
    LET ok == ~isInitialized(currentState) /\ ~isTerminated(currentState)
        thrown == IF isInitialized(currentState) THEN error_codes.INITIALIZED
                  ELSE IF isTerminated(currentState) THEN error_codes.TERMINATED
                  ELSE "0"
        returnValue == Prim(IF ok THEN SCORM_TRUE ELSE SCORM_FALSE)
        fired == IF ok THEN processListeners(listenerArray, N_Initialize, None, None)
                 ELSE <<>>
    IN /\ cmi' = CmiInitialize(cmi)
       /\ currentState' = IF ok THEN STATE_INITIALIZED ELSE currentState
       /\ lastErrorCode' = IF Faulted(fired) THEN thrown
                           ELSE clearSCORMError(thrown, returnValue)
       /\ UNCHANGED <<listenerArray, timeout, timers, settings, tokens>>
       /\ last' = Call("initialize", FALSE, None, None,
                       IF Faulted(fired) THEN CallbackError ELSE returnValue,
                       fired, None)

(***************************************************************************)
(* BaseAPI.terminate(callbackName, checkTerminated); Scorm12API.lmsFinish   *)
(* passes checkTerminated = false.                                         *)
(***************************************************************************)
Terminate ==
    \E checkTerminated \in BOOLEAN :
        LET g == checkState(currentState, lastErrorCode, checkTerminated,
                            error_codes.TERMINATION_BEFORE_INIT,
                            error_codes.MULTIPLE_TERMINATION)
            returnValue == Prim(IF g.ok THEN SCORM_TRUE ELSE SCORM_FALSE)
            err == IF g.ok /\ checkTerminated THEN "0" ELSE g.err
            fired == IF g.ok THEN processListeners(listenerArray, N_Finish, None, None)
                     ELSE <<>>
        IN /\ currentState' = IF g.ok THEN STATE_TERMINATED ELSE currentState
           /\ lastErrorCode' = IF Faulted(fired) THEN err
                               ELSE clearSCORMError(err, returnValue)
           /\ UNCHANGED <<cmi, listenerArray, timeout, timers, settings, tokens>>
           /\ last' = Call("terminate", checkTerminated, None, None,
                           IF Faulted(fired) THEN CallbackError ELSE returnValue,
                           fired, None)

(***************************************************************************)
(* BaseAPI.getValue(callbackName, checkTerminated, CMIElement);             *)
(* Scorm12API.lmsGetValue passes checkTerminated = false.                   *)
(***************************************************************************)
GetValueOf(checks, paths) ==
    \E checkTerminated \in checks, path \in paths :
        LET CMIElement == Some(path)
            g == checkState(currentState, lastErrorCode, checkTerminated,
                            error_codes.RETRIEVE_BEFORE_INIT,
                            error_codes.RETRIEVE_AFTER_TERM)
            err0 == IF g.ok /\ checkTerminated THEN "0" ELSE g.err
            r == commonGetCMIValue(This(cmi, currentState, err0), CMIElement)
            returnValue == IF g.ok THEN r.ret ELSE Undef
            err == IF g.ok THEN r.err ELSE err0
            fired == IF g.ok
                     THEN processListeners(listenerArray, N_GetValue, CMIElement, None)
                     ELSE <<>>
            afterSet == IF /\ last.op = "setValue"
                           /\ last.returnValue = Prim(SCORM_TRUE)
                           /\ last.CMIElement = CMIElement
                           /\ last.pre.currentState = STATE_INITIALIZED
                        THEN last.value
                        ELSE None
            escaped == g.ok /\ r.thrown # "none"
        IN /\ lastErrorCode' = IF escaped \/ Faulted(fired) THEN err
                               ELSE clearSCORMError(err, returnValue)
           /\ UNCHANGED <<currentState, cmi, listenerArray, timeout, timers,
                          settings, tokens>>
           /\ last' = Call("getValue", checkTerminated, CMIElement, None,
                           IF escaped THEN Thrown(r.thrown)
                           ELSE IF Faulted(fired) THEN CallbackError
                           ELSE returnValue,
                           IF escaped THEN <<>> ELSE fired, afterSet)

GetValue == GetValueOf(BOOLEAN, GetPaths)
\* Scorm12API.lmsGetValue on the paths of the tree
LMSGetValue == GetValueOf({FALSE}, TreePaths)

(***************************************************************************)
(* BaseAPI.setValue(callbackName, checkTerminated, CMIElement, value);      *)
(* Scorm12API.lmsSetValue passes checkTerminated = false.                   *)
(***************************************************************************)
\* the body of setValue from the guard to the return
setValue(checkTerminated, CMIElement, value) ==
    LET g == checkState(currentState, lastErrorCode, checkTerminated,
                        error_codes.STORE_BEFORE_INIT, error_codes.STORE_AFTER_TERM)
        err0 == IF g.ok /\ checkTerminated THEN "0" ELSE g.err
        w == commonSetCMIValue(This(cmi, currentState, err0), CMIElement, value)
        \* the catch clause: a ValidationError leaves its code, anything else GENERAL
        root == CASE w.thrown = "none" -> w.root
                  [] w.thrown = "ValidationError" -> throwSCORMError(w.root, w.code)
                  [] OTHER -> throwSCORMError(w.root, error_codes.GENERAL)
        returnValue == IF g.ok /\ w.thrown = "none" THEN w.returnValue ELSE SCORM_FALSE
        err1 == IF g.ok THEN root.f.lastErrorCode.v ELSE err0
        fired == IF g.ok
                 THEN processListeners(listenerArray, N_SetValue, CMIElement,
                                       Some(<<value>>))
                 ELSE <<>>
        \* a callback that throws leaves setValue before the autocommit and
        \* before clearSCORMError
        schedule == /\ ~Faulted(fired)
                    /\ err1 = "0" /\ settings.autocommit /\ timeout.k = "undefined"
    IN [ cmi |-> IF g.ok THEN root.f.cmi ELSE cmi,
         currentState |-> IF g.ok THEN root.f.currentState.v ELSE currentState,
         lastErrorCode |-> IF Faulted(fired) THEN err1
                           ELSE clearSCORMError(err1, Prim(returnValue)),
         returnValue |-> IF Faulted(fired) THEN CallbackError
                         ELSE Prim(returnValue),
         fired |-> fired,
         timers |-> IF schedule
                    THEN Append(timers,
                                NewScheduledCommit(settings.autocommitSeconds * 1000))
                    ELSE timers,
         timeout |-> IF schedule THEN TimeoutOf(Len(timers) + 1) ELSE timeout ]

SetValueOf(checks, inputs) ==
    \E checkTerminated \in checks, in \in inputs :
        LET r == setValue(checkTerminated, Some(in[1]), in[2])
        IN /\ MaxLen(r.cmi) <= MaxChildren
           /\ cmi' = r.cmi
           /\ currentState' = r.currentState
           /\ lastErrorCode' = r.lastErrorCode
           /\ timers' = r.timers
           /\ timeout' = r.timeout
           /\ UNCHANGED <<listenerArray, settings, tokens>>
           /\ last' = Call("setValue", checkTerminated, Some(in[1]),
                           Some(<<in[2]>>), r.returnValue, r.fired, None)

SetValue == SetValueOf(BOOLEAN, SetInputs)
\* Scorm12API.lmsSetValue on the paths of the tree
LMSSetValue == SetValueOf({FALSE}, TreeInputs)
\* Scorm12API.lmsSetValue with listeners registered
NotifiedSetValue == SetValueOf({FALSE}, ListenerInputs)

(***************************************************************************)
(* BaseAPI.commit(callbackName, checkTerminated) with Scorm12API.storeData; *)
(* Scorm12API.lmsCommit passes checkTerminated = false.                     *)
(***************************************************************************)
\* storeData(false): the answer of the LMS when a commit URL is configured,
\* the string SCORM_TRUE otherwise
storeData(response) ==
    IF settings.lmsCommitUrl
    THEN [isObject |-> TRUE, result |-> response.result,
          errorCode |-> response.errorCode]
    ELSE [isObject |-> FALSE, result |-> SCORM_TRUE, errorCode |-> "0"]

\* the body of commit from the guard to the return
commit(checkTerminated, response) ==
    LET g == checkState(currentState, lastErrorCode, checkTerminated,
                        error_codes.COMMIT_BEFORE_INIT, error_codes.COMMIT_AFTER_TERM)
        result == storeData(response)
        \* result.errorCode and result.result are undefined on a string
        errorCode == IF result.isObject THEN result.errorCode ELSE "0"
        resultResult == IF result.isObject THEN result.result ELSE ""
        err1 == IF errorCode # "0" THEN errorCode ELSE g.err
        returnValue == IF g.ok /\ resultResult # "" THEN resultResult ELSE SCORM_FALSE
        err2 == IF ~g.ok THEN g.err ELSE IF checkTerminated THEN "0" ELSE err1
        fired == IF g.ok THEN processListeners(listenerArray, N_Commit, None, None)
                 ELSE <<>>
    IN [ returnValue |-> IF Faulted(fired) THEN CallbackError
                         ELSE Prim(returnValue),
         lastErrorCode |-> IF Faulted(fired) THEN err2
                           ELSE clearSCORMError(err2, Prim(returnValue)),
         stored |-> g.ok,
         fired |-> fired ]

Commit ==
    \E checkTerminated \in BOOLEAN,
       response \in IF settings.lmsCommitUrl THEN Responses
                    ELSE {[result |-> SCORM_TRUE, errorCode |-> "0"]} :
        LET c == clearScheduledCommit(timeout, timers)
            r == commit(checkTerminated, response)
        IN /\ timeout' = c.timeout
           /\ timers' = c.timers
           /\ lastErrorCode' = r.lastErrorCode
           /\ UNCHANGED <<currentState, cmi, listenerArray, settings, tokens>>
           /\ last' = [Call("commit", checkTerminated, None, None,
                            r.returnValue, r.fired, None)
                          EXCEPT !.stored = IF r.stored THEN 1 ELSE 0]

(***************************************************************************)
(* BaseAPI.on(listenerName, callback)                                      *)
(***************************************************************************)
\* a listener for every operation, registered in one call
\* the history of a call of on: one entry for each token of listenerName
Registered(listenerName) ==
    LET listenerFunctions == Split(listenerName, SPACE)
    IN [k \in 1..Len(listenerFunctions) |->
           [listenerName |-> listenerName, token |-> listenerFunctions[k]]]

OnWith(names, callbacks, room) ==
    \E listenerName \in names, callback \in callbacks :
        LET added == on(listenerName, callback)
        IN /\ Len(listenerArray) + Len(added) <= room
           /\ listenerArray' = listenerArray \o added
           /\ tokens' = tokens \o Registered(listenerName)
           /\ UNCHANGED <<currentState, lastErrorCode, cmi, timeout, timers, settings>>
           /\ last' = Call("on", FALSE, Some(listenerName), None, Undef, <<>>, None)

OnOf(names, room) == OnWith(names, Callbacks, room)

\* a listener for every operation, registered in one call
OnAll == OnOf({L_All}, MaxListeners)

\* a listener registered with a single token
On == OnOf(SingleNames, MaxSingle)

Next ==
    \/ Initialize
    \/ Terminate
    \/ GetValue
    \/ SetValue
    \/ Commit
    \/ OnAll

\* the lifecycle, the register and the commit, over a small tree
Spec == Init /\ [][Next]_vars

NextTree ==
    \/ Initialize
    \/ Terminate
    \/ LMSGetValue
    \/ LMSSetValue

\* the tree and its collection, through the SCORM 1.2 facade
SpecTree == Init /\ [][NextTree]_vars

NextListeners ==
    \/ Initialize
    \/ On
    \/ NotifiedSetValue

\* the listeners registered one token at a time
SpecListeners == Init /\ [][NextListeners]_vars

(***************************************************************************)
(* BaseAPI.on with several tokens in one listenerName.                     *)
(***************************************************************************)
MaxPattern == 4

\* listener names of two tokens
L_SetGetRaw == L_SetRaw \o <<SPACE>> \o L_GetRaw
L_SetValueGetRaw == N_SetValue \o <<SPACE>> \o L_GetRaw
PatternNames == {L_SetGetRaw, L_SetValueGetRaw, L_SetRaw}

OnPattern == OnOf(PatternNames, MaxPattern)

\* Scorm12API.lmsGetValue with listeners registered
NotifiedGetValue == GetValueOf({FALSE}, {P_raw})

NextPatterns ==
    \/ Initialize
    \/ OnPattern
    \/ NotifiedSetValue
    \/ NotifiedGetValue

\* the listeners registered several tokens at a time
SpecPatterns == Init /\ [][NextPatterns]_vars

(***************************************************************************)
(* The commit scheduler: BaseAPI.scheduleCommit, ScheduledCommit.wrapper.   *)
(***************************************************************************)
MaxTimers == 2

\* the delays passed to scheduleCommit
Delays == {1000}

\* scheduleCommit(when): this.#timeout = new ScheduledCommit(this, when); the
\* commit that was in the slot, if any, stays armed
ScheduleCommit ==
    \E when \in Delays :
        /\ Len(timers) < MaxTimers
        /\ timers' = Append(timers, NewScheduledCommit(when))
        /\ timeout' = TimeoutOf(Len(timers) + 1)
        /\ UNCHANGED <<currentState, lastErrorCode, cmi, listenerArray, settings,
                       tokens>>
        /\ last' = Call("scheduleCommit", FALSE, None, None, Undef, <<>>, None)

\* what the timer passes as this to the function setTimeout was given:
\* setTimeout(this.wrapper, when) hands over the function without its object
TimerReceivers == {"undefined", "host"}

\* wrapper() run with the given receiver on scheduled commit t: reading
\* this.#cancelled on anything but a ScheduledCommit is a TypeError
wrapper(receiver, t) ==
    IF receiver # "ScheduledCommit" THEN [thrown |-> "TypeError", commits |-> 0]
    ELSE IF ~t.cancelled THEN [thrown |-> "none", commits |-> 1]
    ELSE [thrown |-> "none", commits |-> 0]

\* an armed timer expires and runs its callback
TimerFires ==
    \E k \in DOMAIN timers, receiver \in TimerReceivers,
       response \in IF settings.lmsCommitUrl THEN Responses
                    ELSE {[result |-> SCORM_TRUE, errorCode |-> "0"]} :
        LET w == wrapper(receiver, timers[k])
            committed == w.commits = 1
            \* this.#API.commit(): callbackName and checkTerminated undefined
            c == clearScheduledCommit(timeout, timers)
            r == commit(FALSE, response)
            after == IF committed THEN c.timers ELSE timers
        IN /\ timers[k].handle = "armed"
           /\ timers' = [after EXCEPT ![k].handle = "fired",
                                      ![k].commits = @ + w.commits]
           /\ timeout' = IF committed THEN c.timeout ELSE timeout
           /\ lastErrorCode' = IF committed THEN r.lastErrorCode ELSE lastErrorCode
           /\ UNCHANGED <<currentState, cmi, listenerArray, settings, tokens>>
           /\ last' = [Call("timer", FALSE, None, None,
                            IF committed THEN r.returnValue ELSE Thrown(w.thrown),
                            <<>>, None)
                          EXCEPT !.stored = IF committed /\ r.stored THEN 1 ELSE 0]

NextTimers ==
    \/ Initialize
    \/ Terminate
    \/ ScheduleCommit
    \/ Commit
    \/ TimerFires

\* the commit scheduler, with commits scheduled by scheduleCommit
SpecTimers == Init /\ [][NextTimers]_vars

(***************************************************************************)
(* BaseAPI.loadFromJSON(json, CMIElement).  A JSON object is the sequence  *)
(* of its (key, value) pairs in the order for..in visits them; a value is  *)
(* a leaf, an object, or an object with a childArray.                      *)
(***************************************************************************)
JLeaf(v) == [j |-> "leaf", v |-> v]
JObj(fields) == [j |-> "obj", fields |-> fields]
JArr(children) == [j |-> "arr", childArray |-> children]

\* !json[key]: of the leaves only the empty string is falsy here
JFalsy(value) == value.j = "leaf" /\ value.v = ""

RECURSIVE loadFromJSON(_, _, _)
RECURSIVE loadKeys(_, _, _, _)
RECURSIVE loadChildren(_, _, _, _)

\* for (let i = 0; i < value['childArray'].length; i++) from child i on
loadChildren(st, children, currentCMIElement, i) ==
    IF st.thrown # "none" \/ i >= Len(children) THEN st
    ELSE loadChildren(
             loadFromJSON(st, children[i + 1],
                          Some(currentCMIElement \o <<DOT, IdxKey(i)>>)),
             children, currentCMIElement, i + 1)

\* for (const key in json) from the k-th key on; an exception of setCMIValue
\* ends the whole call
loadKeys(st, json, CMIElement, k) ==
    IF st.thrown # "none" \/ k > Len(json.fields) THEN st
    ELSE LET key == json.fields[k][1]
             value == json.fields[k][2]
             currentCMIElement == CMIElement \o <<DOT, key>>
             w == commonSetCMIValue(st.root, Some(currentCMIElement), value.v)
             next ==
                 IF JFalsy(value) THEN st
                 ELSE IF value.j = "arr"
                 THEN loadChildren(st, value.childArray, currentCMIElement, 0)
                 ELSE IF value.j = "obj"
                 THEN loadFromJSON(st, value, Some(currentCMIElement))
                 ELSE [root |-> w.root, thrown |-> w.thrown, code |-> w.code]
         IN loadKeys(next, json, CMIElement, k + 1)

\* a faulty loadFromJSON that does not look at the lifecycle state
loadFromJSONInAnyState(st, json, CMIElement) ==
    loadKeys(st, json, IF CMIElement.some /\ CMIElement.s # <<>>
                       THEN CMIElement.s ELSE <<"cmi">>, 1)

\* loadFromJSON(json, CMIElement) on the API object st.root
loadFromJSON(st, json, CMIElement) ==
    IF ~isNotInitialized(st.root.f.currentState.v)
    THEN st
    ELSE loadKeys(st, json, IF CMIElement.some /\ CMIElement.s # <<>>
                            THEN CMIElement.s ELSE <<"cmi">>, 1)

\* the JSON objects passed to loadFromJSON
J_raw80 == JObj(<< <<"core", JObj(<< <<"score", JObj(<< <<"raw", JLeaf("80")>> >>)>> >>)>> >>)
J_rawEmpty == JObj(<< <<"core", JObj(<< <<"score", JObj(<< <<"raw", JLeaf("")>> >>)>> >>)>> >>)
J_rawBad == JObj(<< <<"core", JObj(<< <<"score", JObj(<< <<"raw", JLeaf("a")>> >>)>> >>)>> >>)
J_one == JObj(<< <<"interactions", JArr(<< JObj(<< <<"id", JLeaf("a")>> >>) >>)>> >>)
J_two ==
    JObj(<< <<"core", JObj(<< <<"score", JObj(<< <<"raw", JLeaf("80")>> >>)>> >>)>>,
            <<"interactions", JArr(<< JObj(<< <<"id", JLeaf("a")>> >>),
                                      JObj(<< <<"id", JLeaf("b")>> >>) >>)>> >>)
Jsons == {J_raw80, J_rawEmpty, J_rawBad, J_one, J_two}

LoadFromJSON ==
    \E json \in Jsons :
        LET r == loadFromJSON([root |-> This(cmi, currentState, lastErrorCode),
                               thrown |-> "none", code |-> "0"], json, None)
        IN /\ MaxLen(r.root.f.cmi) <= MaxChildren
           /\ cmi' = r.root.f.cmi
           /\ currentState' = r.root.f.currentState.v
           /\ lastErrorCode' = r.root.f.lastErrorCode.v
           /\ UNCHANGED <<listenerArray, timeout, timers, settings, tokens>>
           /\ last' = [Call("loadFromJSON", FALSE, None, None,
                            IF r.thrown = "none" THEN Undef ELSE Thrown(r.thrown),
                            <<>>, None)
                          EXCEPT !.json = json, !.preTree = cmi]

NextLoad ==
    \/ Initialize
    \/ Terminate
    \/ LoadFromJSON

\* the tree loaded from JSON, before and after initialize
SpecLoad == Init /\ [][NextLoad]_vars

(***************************************************************************)
(* BaseAPI.getLastError, getErrorString, getDiagnostic, called through the *)
(* SCORM 1.2 facade.                                                       *)
(***************************************************************************)
N_GetLastError == <<"LMSGetLastError">>
N_GetErrorString == <<"LMSGetErrorString">>
N_GetDiagnostic == <<"LMSGetDiagnostic">>

\* the codes scorm12_constants.error_descriptions describes
Described == {error_codes[n] : n \in DOMAIN error_codes}

\* Scorm12API.getLmsErrorMessageDetails(errorNumber, detail)
getLmsErrorMessageDetails(errorNumber, detail) ==
    IF errorNumber \in Described
    THEN <<IF detail THEN "detailMessage" ELSE "basicMessage", errorNumber>>
    ELSE <<"No Error">>

\* a faulty getLastError that resets the register it has read
getLastErrorAndClear(err) ==
    [ returnValue |-> Prim(err), lastErrorCode |-> "0",
      fired |-> processListeners(listenerArray, N_GetLastError, None, None) ]

\* getLastError(callbackName): what it returns, the register afterwards and
\* the callbacks invoked
getLastError(err) ==
    [ returnValue |-> Prim(err), lastErrorCode |-> err,
      fired |-> processListeners(listenerArray, N_GetLastError, None, None) ]

\* getErrorString(callbackName, CMIErrorCode) and, with detail,
\* getDiagnostic(callbackName, CMIErrorCode)
getErrorString(callbackName, CMIErrorCode, detail) ==
    IF CMIErrorCode.some /\ CMIErrorCode.s # <<>>
    THEN [ returnValue |-> Prim(getLmsErrorMessageDetails(CMIErrorCode.s[1], detail)),
           fired |-> processListeners(listenerArray, callbackName, None, None) ]
    ELSE [ returnValue |-> Prim(""), fired |-> <<>> ]

\* the CMIErrorCode arguments: null, '', and two codes
ErrorCodeArgs == {None, Some(<<>>), Some(<<"0">>), Some(<<error_codes.GENERAL>>)}

GetLastError ==
    LET r == getLastError(lastErrorCode)
    IN /\ lastErrorCode' = r.lastErrorCode
       /\ UNCHANGED <<currentState, cmi, listenerArray, timeout, timers, settings,
                      tokens>>
       /\ last' = Call("getLastError", FALSE, None, None, r.returnValue, r.fired, None)

GetErrorString ==
    \E CMIErrorCode \in ErrorCodeArgs :
        LET r == getErrorString(N_GetErrorString, CMIErrorCode, FALSE)
        IN /\ UNCHANGED <<currentState, lastErrorCode, cmi, listenerArray, timeout,
                          timers, settings, tokens>>
           /\ last' = Call("getErrorString", FALSE, None, CMIErrorCode,
                           r.returnValue, r.fired, None)

GetDiagnostic ==
    \E CMIErrorCode \in ErrorCodeArgs :
        LET r == getErrorString(N_GetDiagnostic, CMIErrorCode, TRUE)
        IN /\ UNCHANGED <<currentState, lastErrorCode, cmi, listenerArray, timeout,
                          timers, settings, tokens>>
           /\ last' = Call("getDiagnostic", FALSE, None, CMIErrorCode,
                           r.returnValue, r.fired, None)

NextReads ==
    \/ Initialize
    \/ Terminate
    \/ NotifiedSetValue
    \/ ScheduleCommit
    \/ GetLastError
    \/ GetErrorString
    \/ GetDiagnostic

\* the reads of the register, in every lifecycle state
SpecReads == Init /\ [][NextReads]_vars

(***************************************************************************)
(* Listeners whose filter begins, equals or extends the element of a call. *)
(***************************************************************************)
MaxFilter == 3

L_SetScore == N_SetValue \o <<DOT, "cmi", DOT, "core", DOT, "score">>
L_SetRawExt == L_SetRaw \o <<DOT, "x">>
FilterNames == {N_SetValue, L_SetRaw, L_SetScore, L_SetRawExt}

OnFilter == OnOf(FilterNames, MaxFilter)

NextNotify ==
    \/ Initialize
    \/ OnFilter
    \/ NotifiedSetValue

\* the notification of listeners with and without filters
SpecNotify == Init /\ [][NextNotify]_vars

(***************************************************************************)
(* Listeners whose callback throws.                                        *)
(***************************************************************************)
MaxFaulty == 10

\* a callback that returns and one that throws
FaultyCallbacks == {"cb", "faulty"}

OnFaulty == OnWith({L_All}, FaultyCallbacks, MaxFaulty)

\* Scorm12API.lmsGetValue on a leaf and on a path that goes on below the leaf
GetValueBelowLeaf == GetValueOf({FALSE}, {P_raw, P_rawX})

NextFaults ==
    \/ Initialize
    \/ Terminate
    \/ GetValueBelowLeaf
    \/ NotifiedSetValue
    \/ Commit
    \/ OnFaulty

\* the public operations with listeners that may throw
SpecFaults == Init /\ [][NextFaults]_vars

(***************************************************************************)
(* Element paths that end on a field of the API object itself.             *)
(***************************************************************************)
RootInputs ==
    {<<P_cmi, "a">>, <<P_id0, "a">>, <<P_id1, "a">>, <<P_raw, "80">>}

\* Scorm12API.lmsSetValue on the tree and on the field that holds it
RootSetValue == SetValueOf({FALSE}, RootInputs)

NextRoot ==
    \/ Initialize
    \/ Terminate
    \/ LMSGetValue
    \/ RootSetValue

\* the collection under writes to the tree and to the cmi field
SpecRoot == Init /\ [][NextRoot]_vars

(***************************************************************************)
(* Vocabulary of the claims.                                               *)
(***************************************************************************)
\* the calls that answer with the success or the failure token
TokenOps == {"initialize", "terminate", "setValue", "commit"}
GuardedOps == {"terminate", "getValue", "setValue", "commit"}

\* what the last call reported: failure is the token "false", and for getValue
\* no value at all; success is anything else it returned
ReportedFailure ==
    IF last.op = "getValue" THEN last.returnValue = Undef
    ELSE last.returnValue = Prim(SCORM_FALSE)
ReportedSuccess ==
    IF last.op = "getValue" THEN last.returnValue.k \in {"prim", "obj", "arr"}
    ELSE last.returnValue = Prim(SCORM_TRUE)

\* the registrations a notification of functionName alone is owed to
Unfiltered(functionName) ==
    {k \in DOMAIN listenerArray :
        /\ listenerArray[k].functionName = functionName
        /\ ~listenerArray[k].CMIElement.some}

\* the registrations the last call invoked
FiredRegistrations == {last.fired[j].registration : j \in DOMAIN last.fired}

\* the code each guarded operation reports before initialize and after terminate
BeforeInitCode(op) ==
    CASE op = "terminate" -> error_codes.TERMINATION_BEFORE_INIT
      [] op = "getValue" -> error_codes.RETRIEVE_BEFORE_INIT
      [] op = "setValue" -> error_codes.STORE_BEFORE_INIT
      [] OTHER -> error_codes.COMMIT_BEFORE_INIT
AfterTermCode(op) ==
    CASE op = "getValue" -> error_codes.RETRIEVE_AFTER_TERM
      [] op = "setValue" -> error_codes.STORE_AFTER_TERM
      [] OTHER -> error_codes.COMMIT_AFTER_TERM

(***************************************************************************)
(* C1: the lifecycle state only moves NOT_INITIALIZED -> INITIALIZED ->    *)
(* TERMINATED: every call leaves it where it was or takes one of these two *)
(* steps, and no call leaves TERMINATED.                                   *)
(***************************************************************************)
C1_LifecycleMonotonic ==
    \/ currentState = last.pre.currentState
    \/ /\ last.pre.currentState = STATE_NOT_INITIALIZED
       /\ currentState = STATE_INITIALIZED
    \/ /\ last.pre.currentState = STATE_INITIALIZED
       /\ currentState = STATE_TERMINATED

(***************************************************************************)
(* C2: initialize fails in INITIALIZED and in TERMINATED, with the         *)
(* matching code in the register, the state unchanged and no listener      *)
(* notified; in NOT_INITIALIZED it succeeds, moves to INITIALIZED, leaves  *)
(* the register at 0 and notifies the listeners of initialize.             *)
(***************************************************************************)
C2_Initialize ==
    last.op = "initialize" =>
        /\ last.pre.currentState = STATE_INITIALIZED =>
              /\ last.returnValue = Prim(SCORM_FALSE)
              /\ lastErrorCode = error_codes.INITIALIZED
              /\ currentState = STATE_INITIALIZED
              /\ last.fired = <<>>
        /\ last.pre.currentState = STATE_TERMINATED =>
              /\ last.returnValue = Prim(SCORM_FALSE)
              /\ lastErrorCode = error_codes.TERMINATED
              /\ currentState = STATE_TERMINATED
              /\ last.fired = <<>>
        /\ last.pre.currentState = STATE_NOT_INITIALIZED =>
              /\ last.returnValue = Prim(SCORM_TRUE)
              /\ lastErrorCode = "0"
              /\ currentState = STATE_INITIALIZED
              /\ FiredRegistrations = Unfiltered(N_Initialize)
              /\ Len(last.fired) = Cardinality(Unfiltered(N_Initialize))

\* initialize refused after terminate, with listeners registered
C2_Witness ==
    /\ last.op = "initialize"
    /\ last.pre.currentState = STATE_TERMINATED
    /\ last.returnValue = Prim(SCORM_FALSE)
    /\ Unfiltered(N_Initialize) # {}

(***************************************************************************)
(* C3: terminate called while TERMINATED fails: it returns the failure     *)
(* token, leaves the state and the tree unchanged and leaves a nonzero     *)
(* code in the register.                                                   *)
(***************************************************************************)
C3_SecondTerminateFails ==
    (last.op = "terminate" /\ last.pre.currentState = STATE_TERMINATED) =>
        /\ last.returnValue = Prim(SCORM_FALSE)
        /\ currentState = STATE_TERMINATED
        /\ ~last.treeChanged
        /\ lastErrorCode # "0"

(***************************************************************************)
(* C4: in NOT_INITIALIZED every getValue, setValue, commit and terminate   *)
(* fails, leaves that operation's before-init code in the register,        *)
(* changes neither the tree nor the state and invokes no listener.         *)
(***************************************************************************)
C4_BeforeInit ==
    (last.op \in GuardedOps /\ last.pre.currentState = STATE_NOT_INITIALIZED) =>
        /\ ReportedFailure
        /\ lastErrorCode = BeforeInitCode(last.op)
        /\ ~last.treeChanged
        /\ currentState = STATE_NOT_INITIALIZED
        /\ last.fired = <<>>

\* a setValue refused before initialize, with a listener of setValue registered
C4_Witness ==
    /\ last.op = "setValue"
    /\ last.pre.currentState = STATE_NOT_INITIALIZED
    /\ last.CMIElement = Some(P_raw)
    /\ last.value = Some(<<"80">>)
    /\ Unfiltered(N_SetValue) # {}

(***************************************************************************)
(* C5: with checkTerminated set, every getValue, setValue and commit made  *)
(* in TERMINATED fails, leaves that operation's after-termination code in  *)
(* the register, does not change the tree and invokes no listener.         *)
(***************************************************************************)
C5_AfterTerminate ==
    ( /\ last.op \in {"getValue", "setValue", "commit"}
      /\ last.checkTerminated
      /\ last.pre.currentState = STATE_TERMINATED ) =>
        /\ ReportedFailure
        /\ lastErrorCode = AfterTermCode(last.op)
        /\ ~last.treeChanged
        /\ last.fired = <<>>

\* a setValue refused after terminate, with a listener of setValue registered
C5_Witness ==
    /\ last.op = "setValue"
    /\ last.checkTerminated
    /\ last.pre.currentState = STATE_TERMINATED
    /\ last.CMIElement = Some(P_raw)
    /\ last.value = Some(<<"80">>)
    /\ Unfiltered(N_SetValue) # {}

(***************************************************************************)
(* C9: after every initialize, terminate, getValue, setValue and commit    *)
(* the register is 0 if the call reported success and nonzero if it        *)
(* reported failure.                                                       *)
(***************************************************************************)
C9_RegisterMatchesOutcome ==
    last.op \in TokenOps \cup {"getValue"} =>
        /\ ReportedSuccess => lastErrorCode = "0"
        /\ ReportedFailure => lastErrorCode # "0"

(***************************************************************************)
(* C6: once TERMINATED, no setValue made through LMSSetValue changes a     *)
(* leaf value or a collection length.                                      *)
(***************************************************************************)
C6_NoMutationAfterTerminate ==
    ( /\ last.op = "setValue"
      /\ ~last.checkTerminated
      /\ last.pre.currentState = STATE_TERMINATED ) => ~last.treeChanged

(***************************************************************************)
(* C7: while INITIALIZED, a setValue(p, v) that returns success followed   *)
(* immediately by getValue(p) returns v.                                   *)
(***************************************************************************)
C7_RoundTrip ==
    (last.op = "getValue" /\ last.afterSet.some) =>
        last.returnValue = Prim(last.afterSet.s[1])

(***************************************************************************)
(* C8: a setValue whose path addresses an index of cmi.interactions        *)
(* greater than its length fails with the undefined-element code and       *)
(* leaves the collection unchanged; a child is created only when the index *)
(* equals the length.                                                      *)
(***************************************************************************)
\* the index a path addresses in cmi.interactions, NaN if it addresses none
InteractionsIndex(CMIElement) ==
    IF StartsWith(CMIElement.s, <<"cmi", DOT, "interactions", DOT>>)
    THEN parseInt(Split(CMIElement.s, DOT), 3)
    ELSE NaN

\* the length of cmi.interactions
Count == CountOf(cmi)

C8_SequentialGrowth ==
    ( /\ last.op = "setValue"
      /\ last.pre.currentState = STATE_INITIALIZED ) =>
        /\ InteractionsIndex(last.CMIElement) > last.pre.count =>
              /\ last.returnValue = Prim(SCORM_FALSE)
              /\ lastErrorCode = error_codes.GENERAL
              /\ Count = last.pre.count
              /\ ~last.treeChanged
        /\ Count # last.pre.count =>
              InteractionsIndex(last.CMIElement) = last.pre.count

(***************************************************************************)
(* C10: a listener registered with the single token                        *)
(* 'operationName.elementPath' is invoked exactly once, with               *)
(* (elementPath, value), by a setValue of that operation name on that path *)
(* made while INITIALIZED, and not at all by a setValue on another path.   *)
(***************************************************************************)
\* the text before and after the first "." of a token
RECURSIVE BeforeDot(_)
BeforeDot(t) ==
    IF t = <<>> \/ Head(t) = DOT THEN <<>> ELSE <<Head(t)>> \o BeforeDot(Tail(t))
AfterDot(t) == SubSeq(t, Len(BeforeDot(t)) + 2, Len(t))

\* the registrations made with a single token that names a path
SingleTokenWithPath ==
    {k \in DOMAIN tokens :
        /\ tokens[k].listenerName = tokens[k].token
        /\ Len(BeforeDot(tokens[k].token)) < Len(tokens[k].token)}

\* the invocations the last call made of registration k
Invocations(k) == SelectSeq(last.fired, LAMBDA e : e.registration = k)

C10_SingleTokenListener ==
    (last.op = "setValue" /\ last.pre.currentState = STATE_INITIALIZED) =>
        \A k \in SingleTokenWithPath :
            IF /\ BeforeDot(tokens[k].token) = N_SetValue
               /\ AfterDot(tokens[k].token) = last.CMIElement.s
            THEN Invocations(k) =
                    <<[registration |-> k, callback |-> listenerArray[k].callback,
                       CMIElement |-> last.CMIElement, value |-> last.value]>>
            ELSE Invocations(k) = <<>>

\* a setValue on the path of one registration that is not the path of another
C10_Witness ==
    /\ last.op = "setValue"
    /\ last.pre.currentState = STATE_INITIALIZED
    /\ last.CMIElement = Some(P_raw)
    /\ last.value = Some(<<"80">>)
    /\ \E k \in SingleTokenWithPath : Len(Invocations(k)) = 1
    /\ \E k \in SingleTokenWithPath : Invocations(k) = <<>>

(***************************************************************************)
(* C11: on(listenerName, callback) appends one registration for each       *)
(* space-separated token, in token order; each registration has the        *)
(* operation name of its own token and, as its element filter, the text    *)
(* after the first "." of that token (none without a "."), so that a       *)
(* setValue or getValue invokes exactly the registrations whose token      *)
(* names that operation and either no element or the element of the call.  *)
(***************************************************************************)
\* the element filter token t asks for
TokenFilter(t) == IF Len(BeforeDot(t)) < Len(t) THEN Some(AfterDot(t)) ELSE None

\* the name under which the last call notifies the listeners
NotifiedAs ==
    CASE last.op = "setValue" -> N_SetValue
      [] last.op = "getValue" -> N_GetValue
      [] OTHER -> <<>>

C11_RegistrationPerToken ==
    /\ Len(listenerArray) = Len(tokens)
    /\ \A k \in DOMAIN tokens :
          /\ listenerArray[k].functionName = BeforeDot(tokens[k].token)
          /\ listenerArray[k].CMIElement = TokenFilter(tokens[k].token)
    /\ ( /\ last.op \in {"setValue", "getValue"}
         /\ last.pre.currentState = STATE_INITIALIZED ) =>
           \A k \in DOMAIN tokens :
               Invocations(k) # <<>> <=>
                   /\ BeforeDot(tokens[k].token) = NotifiedAs
                   /\ TokenFilter(tokens[k].token) \in {None, last.CMIElement}

(***************************************************************************)
(* C12: with autocommit enabled and no commit pending, a setValue that     *)
(* succeeds while INITIALIZED leaves exactly one commit pending, armed     *)
(* with the delay autocommitSeconds * 1000.                                *)
(***************************************************************************)
\* the timers that are armed and not cancelled
PendingTimers == {k \in DOMAIN timers : timers[k].handle = "armed"}

C12_AutocommitArms ==
    ( /\ last.op = "setValue"
      /\ last.pre.currentState = STATE_INITIALIZED
      /\ last.returnValue = Prim(SCORM_TRUE)
      /\ settings.autocommit
      /\ last.pre.timeout = NullTimeout ) =>
        /\ timeout.k = "ScheduledCommit"
        /\ PendingTimers = {timeout.id}
        /\ timers[timeout.id].when = settings.autocommitSeconds * 1000

(***************************************************************************)
(* C13: a commit called while a scheduled commit is pending and its timer  *)
(* has not fired cancels it and empties the slot, runs storeData exactly   *)
(* once if the lifecycle guard passes, and a cancelled timer never calls   *)
(* commit.                                                                 *)
(***************************************************************************)
\* the last call found a scheduled commit in the slot, its timer armed
FoundPending ==
    /\ last.pre.timeout.k = "ScheduledCommit"
    /\ last.pre.timers[last.pre.timeout.id].handle = "armed"

\* the lifecycle guard let the last call through
GuardPassed ==
    \/ last.pre.currentState = STATE_INITIALIZED
    \/ last.pre.currentState = STATE_TERMINATED /\ ~last.checkTerminated

C13_CommitCancelsPending ==
    /\ (last.op = "commit" /\ FoundPending) =>
          /\ timeout = NullTimeout
          /\ timers[last.pre.timeout.id].cancelled
          /\ timers[last.pre.timeout.id].handle = "cleared"
          /\ last.stored = IF GuardPassed THEN 1 ELSE 0
    /\ \A k \in DOMAIN timers :
          timers[k].cancelled =>
              /\ timers[k].handle # "armed"
              /\ timers[k].commits = 0

\* a commit that passed the guard with a scheduled commit pending
C13_Witness ==
    /\ last.op = "commit"
    /\ FoundPending
    /\ last.pre.currentState = STATE_INITIALIZED
    /\ last.stored = 1
    /\ timers[last.pre.timeout.id].handle = "cleared"

(***************************************************************************)
(* C14: a scheduled commit whose timer fires before it is cancelled calls  *)
(* commit on the API that scheduled it exactly once.                       *)
(***************************************************************************)
C14_TimerCommits ==
    \A k \in DOMAIN timers :
        timers[k].handle = "fired" => timers[k].commits = 1

(***************************************************************************)
(* C15: loadFromJSON called in INITIALIZED or TERMINATED changes no leaf,  *)
(* no collection, not the lifecycle state and not the register.            *)
(***************************************************************************)
C15_LoadAfterInitialize ==
    (last.op = "loadFromJSON" /\ last.pre.currentState # STATE_NOT_INITIALIZED) =>
        /\ ~last.treeChanged
        /\ currentState = last.pre.currentState
        /\ lastErrorCode = last.pre.lastErrorCode
        /\ last.returnValue = Undef

\* a JSON that would change the tree, loaded after initialize
C15_Witness ==
    /\ last.op = "loadFromJSON"
    /\ last.pre.currentState = STATE_INITIALIZED
    /\ last.json = J_two
    /\ Leaves(cmi).core.score.raw = Prim("")
    /\ Count = 0

(***************************************************************************)
(* C16: loadFromJSON(json) called in NOT_INITIALIZED leaves the tree that  *)
(* setting every leaf (path, value) of json, in the order of the JSON,     *)
(* leaves; leaves that hold the empty string and the children of a         *)
(* childArray included.                                                    *)
(***************************************************************************)
\* the (path, value) pairs of the leaves of a JSON value, in its order
RECURSIVE LeafPairs(_, _)
RECURSIVE FieldPairs(_, _, _)
RECURSIVE ChildPairs(_, _, _)
FieldPairs(fields, path, k) ==
    IF k > Len(fields) THEN <<>>
    ELSE LeafPairs(fields[k][2], path \o <<DOT, fields[k][1]>>)
         \o FieldPairs(fields, path, k + 1)
ChildPairs(children, path, i) ==
    IF i >= Len(children) THEN <<>>
    ELSE LeafPairs(children[i + 1], path \o <<DOT, IdxKey(i)>>)
         \o ChildPairs(children, path, i + 1)
LeafPairs(value, path) ==
    CASE value.j = "leaf" -> << <<path, value.v>> >>
      [] value.j = "obj" -> FieldPairs(value.fields, path, 1)
      [] OTHER -> ChildPairs(value.childArray, path, 0)

\* the tree after setting the pairs from the k-th on, one setCMIValue each
RECURSIVE SetAll(_, _, _)
SetAll(c, pairs, k) ==
    IF k > Len(pairs) THEN c
    ELSE SetAll(commonSetCMIValue(This(c, STATE_NOT_INITIALIZED, "0"),
                                  Some(pairs[k][1]), pairs[k][2]).root.f.cmi,
                pairs, k + 1)

C16_LoadEqualsSets ==
    (last.op = "loadFromJSON" /\ last.pre.currentState = STATE_NOT_INITIALIZED) =>
        Leaves(cmi) =
            Leaves(SetAll(last.preTree, LeafPairs(last.json, <<"cmi">>), 1))

(***************************************************************************)
(* C17: a commit made while INITIALIZED with no lmsCommitUrl configured    *)
(* returns "true", leaves the register at 0 and notifies the listeners of  *)
(* commit.                                                                 *)
(***************************************************************************)
C17_LocalCommit ==
    ( /\ last.op = "commit"
      /\ last.pre.currentState = STATE_INITIALIZED
      /\ ~settings.lmsCommitUrl ) =>
        /\ last.returnValue = Prim(SCORM_TRUE)
        /\ lastErrorCode = "0"
        /\ FiredRegistrations = Unfiltered(N_Commit)
        /\ Len(last.fired) = Cardinality(Unfiltered(N_Commit))

(***************************************************************************)
(* C18: getLastError, getErrorString and getDiagnostic leave the register, *)
(* the lifecycle state, the tree and the scheduled commit as they found    *)
(* them, and getLastError returns the register as a string.                *)
(***************************************************************************)
ReadOps == {"getLastError", "getErrorString", "getDiagnostic"}

C18_PureReads ==
    last.op \in ReadOps =>
        /\ lastErrorCode = last.pre.lastErrorCode
        /\ currentState = last.pre.currentState
        /\ ~last.treeChanged
        /\ timeout = last.pre.timeout
        /\ timers = last.pre.timers
        /\ last.op = "getLastError" => last.returnValue = Prim(last.pre.lastErrorCode)

\* getLastError with a code in the register and a commit scheduled
C18_Witness ==
    /\ last.op = "getLastError"
    /\ last.pre.lastErrorCode = error_codes.TYPE_MISMATCH
    /\ last.pre.timeout.k = "ScheduledCommit"
    /\ last.returnValue = Prim(error_codes.TYPE_MISMATCH)

(***************************************************************************)
(* C19: a getValue that passes the guard on a path whose index in          *)
(* cmi.interactions is not below its length returns no value and leaves    *)
(* the not-initialized code in the register.                               *)
(***************************************************************************)
C19_GetUnassignedIndex ==
    ( /\ last.op = "getValue"
      /\ GuardPassed
      /\ InteractionsIndex(last.CMIElement) # NaN
      /\ InteractionsIndex(last.CMIElement) >= last.pre.count ) =>
        /\ last.returnValue = Undef
        /\ lastErrorCode = error_codes.VALUE_NOT_INITIALIZED

(***************************************************************************)
(* C20: a setValue that passes the guard and whose value the validator of  *)
(* the leaf rejects returns "false", leaves the tree as it was and leaves  *)
(* the validator's code in the register; the tree changes only in a        *)
(* setValue whose value the validator of the addressed leaf accepts.       *)
(***************************************************************************)
\* what the validator of the leaf the last setValue addresses says of its value
Verdict ==
    CASE last.CMIElement = Some(P_raw) -> Validate("CMIScore", "raw", last.value.s[1])
      [] last.CMIElement \in {Some(P_id0), Some(P_id1), Some(P_id2)} ->
           Validate("CMIInteractionsObject", "id", last.value.s[1])
      [] OTHER -> "ok"

C20_ValidatorRejects ==
    /\ (last.op = "setValue" /\ GuardPassed /\ Verdict # "ok") =>
          /\ last.returnValue = Prim(SCORM_FALSE)
          /\ ~last.treeChanged
          /\ lastErrorCode = Verdict
    /\ last.treeChanged => (last.op = "setValue" /\ Verdict = "ok")

\* a rejected value for a leaf that holds an accepted one
C20_Witness ==
    /\ last.op = "setValue"
    /\ last.pre.currentState = STATE_INITIALIZED
    /\ last.CMIElement = Some(P_raw)
    /\ last.value = Some(<<"a">>)
    /\ Leaves(cmi).core.score.raw = Prim("80")
    /\ lastErrorCode = error_codes.TYPE_MISMATCH

(***************************************************************************)
(* C21: a getValue or setValue made while INITIALIZED with an empty or     *)
(* missing element path leaves the tree unchanged, records no code in the  *)
(* register and does not report failure; getValue returns the empty        *)
(* string.                                                                 *)
(***************************************************************************)
C21_EmptyPath ==
    ( /\ last.op \in {"getValue", "setValue"}
      /\ last.pre.currentState = STATE_INITIALIZED
      /\ last.CMIElement \in {None, Some(<<>>)} ) =>
        /\ ~last.treeChanged
        /\ lastErrorCode \in {"0", last.pre.lastErrorCode}
        /\ ~ReportedFailure
        /\ last.op = "getValue" => last.returnValue = Prim("")

(***************************************************************************)
(* C22: getValue, setValue and loadFromJSON return normally whatever the   *)
(* data model throws: a ValidationError leaves the validator's code in the *)
(* register, any other fault the general code, and the call reports        *)
(* failure.                                                                *)
(***************************************************************************)
C22_NoFaultEscapes ==
    /\ last.op \in {"getValue", "setValue", "loadFromJSON"} =>
          last.returnValue.k # "thrown"
    /\ (last.op = "setValue" /\ GuardPassed /\ Verdict # "ok") =>
          /\ last.returnValue = Prim(SCORM_FALSE)
          /\ lastErrorCode = Verdict

(***************************************************************************)
(* C23: a notification of (functionName, CMIElement) invokes, in the order *)
(* of registration, exactly the registrations of that functionName whose   *)
(* filter is absent or equal to CMIElement; a filter that only begins or   *)
(* extends CMIElement does not match.                                      *)
(***************************************************************************)
\* the registrations from the k-th on that the notification is owed to
RECURSIVE OwedFrom(_, _, _)
OwedFrom(k, functionName, CMIElement) ==
    IF k > Len(listenerArray) THEN <<>>
    ELSE (IF /\ listenerArray[k].functionName = functionName
             /\ \/ ~listenerArray[k].CMIElement.some
                \/ listenerArray[k].CMIElement = CMIElement
          THEN <<k>> ELSE <<>>)
         \o OwedFrom(k + 1, functionName, CMIElement)

\* the registrations the last call invoked, in the order it invoked them
InvokedInOrder == [i \in 1..Len(last.fired) |-> last.fired[i].registration]

C23_ExactFilter ==
    (last.op = "setValue" /\ GuardPassed) =>
        /\ InvokedInOrder = OwedFrom(1, N_SetValue, last.CMIElement)
        /\ \A i \in 1..Len(last.fired) :
              /\ last.fired[i].CMIElement = last.CMIElement
              /\ last.fired[i].value = last.value

\* a setValue on an element with registrations whose filters begin it, equal it
\* and are absent
C23_Witness ==
    /\ last.op = "setValue"
    /\ GuardPassed
    /\ last.CMIElement = Some(P_raw)
    /\ Len(listenerArray) = 3
    /\ \E k \in DOMAIN listenerArray :
          listenerArray[k].CMIElement = Some(<<"cmi", DOT, "core", DOT, "score">>)
    /\ Len(last.fired) = 2

(***************************************************************************)
(* C24: when a callback invoked during initialize, terminate, getValue,    *)
(* setValue or commit throws, what it threw leaves the public call, and no *)
(* registration after the one that threw is invoked.                       *)
(***************************************************************************)
\* the name under which each public operation notifies the listeners
NotifiedName ==
    CASE last.op = "initialize" -> N_Initialize
      [] last.op = "terminate" -> N_Finish
      [] last.op = "getValue" -> N_GetValue
      [] last.op = "setValue" -> N_SetValue
      [] last.op = "commit" -> N_Commit
      [] OTHER -> <<>>

\* the owed registrations up to and including the first whose callback throws
RECURSIVE UntilFault(_)
UntilFault(owed) ==
    IF owed = <<>> THEN <<>>
    ELSE IF listenerArray[Head(owed)].callback = "faulty" THEN <<Head(owed)>>
    ELSE <<Head(owed)>> \o UntilFault(Tail(owed))

OwedUntilFault == UntilFault(OwedFrom(1, NotifiedName, last.CMIElement))

NotifyingOps == {"initialize", "terminate", "getValue", "setValue", "commit"}

C24_FaultPropagates ==
    ( /\ last.op \in NotifyingOps
      /\ \E k \in FiredRegistrations : listenerArray[k].callback = "faulty" ) =>
        /\ last.returnValue = CallbackError
        /\ InvokedInOrder = OwedUntilFault

\* a setValue with a callback that throws registered before one that returns
C24_Witness ==
    /\ last.op = "setValue"
    /\ GuardPassed
    /\ Len(OwedFrom(1, N_SetValue, last.CMIElement)) = 2
    /\ listenerArray[OwedFrom(1, N_SetValue, last.CMIElement)[1]].callback = "faulty"
    /\ Len(last.fired) = 1
    /\ last.returnValue = CallbackError

(***************************************************************************)
(* C25: the children of a collection are a gapless sequence that is only   *)
(* ever appended to: no call leaves the collection shorter than it found   *)
(* it, a setValue that names an index leaves it at most one longer, and    *)
(* every other call leaves its length as it was.                           *)
(***************************************************************************)
C25_AppendOnly ==
    /\ Count >= last.pre.count
    /\ Count <= last.pre.count + 1
    /\ Count > last.pre.count =>
          /\ last.op = "setValue"
          /\ InteractionsIndex(last.CMIElement) # NaN

(***************************************************************************)
(* C26: a setValue that answers "false" while INITIALIZED leaves the whole *)
(* tree as it found it; in particular it appends no child.                 *)
(***************************************************************************)
C26_FailedSetLeavesTree ==
    ( /\ last.op = "setValue"
      /\ last.pre.currentState = STATE_INITIALIZED
      /\ last.returnValue = Prim(SCORM_FALSE) ) =>
        /\ ~last.treeChanged
        /\ Count = last.pre.count

(***************************************************************************)
(* C27: at most one commit timer is armed and not cancelled, and it is the *)
(* one the pending slot holds: every other timer ever armed has been       *)
(* cancelled or has fired.                                                 *)
(***************************************************************************)
C27_SinglePendingTimer ==
    \A k \in DOMAIN timers :
        timers[k].handle = "armed" => timeout = TimeoutOf(k)

(***************************************************************************)
(* C28: a terminate that succeeds leaves no commit timer armed, and a      *)
(* timer that fires in TERMINATED does not run storeData.                  *)
(***************************************************************************)
C28_TerminateDisarms ==
    /\ (last.op = "terminate" /\ last.returnValue = Prim(SCORM_TRUE)) =>
          PendingTimers = {}
    /\ (last.op = "timer" /\ last.pre.currentState = STATE_TERMINATED) =>
          last.stored = 0

(***************************************************************************)
(* C29: a getValue, setValue or commit invokes each registration it is     *)
(* owed to exactly once, with the element and the value of the call, when  *)
(* the lifecycle guard let the call through, whatever the call then        *)
(* answers, and invokes none when the guard stopped it.                    *)
(***************************************************************************)
C29_NotifiedOncePerCall ==
    last.op \in {"getValue", "setValue", "commit"} =>
        /\ InvokedInOrder = IF GuardPassed THEN OwedUntilFault ELSE <<>>
        /\ \A i \in 1..Len(last.fired) :
              /\ last.fired[i].CMIElement = last.CMIElement
              /\ last.fired[i].value = last.value
====
